---- MODULE Spec2Model ----
(***************************************************************************)
(* Model of the AWS auto-discovery server selector of gomemcache           *)
(* (memcache/aws_discovery_selector.go): the Discovery object, its         *)
(* background poller goroutine, the discover() attempt, parseNodes on the  *)
(* bytes of a response, and the caller operations PickServer and Each.     *)
(*                                                                         *)
(* Memory model: d.serverList is one machine word.  A Go read of a word    *)
(* that races with a write observes one of the values written, so the      *)
(* unsynchronised read in PickServer/Each is one atomic step that returns  *)
(* the value before or after the poller's write, whichever the             *)
(* interleaving gives.                                                     *)
(*                                                                         *)
(* Time is counted in seconds (time.Duration counts nanoseconds).          *)
(***************************************************************************)
EXTENDS Integers, Sequences, FiniteSets, TLC

(* ------------------------------ bounds -------------------------------- *)

\* ticks the ticker may fire in one run (so at most MaxTicks + 1 attempts)
MaxTicks == 2

\* longest node list one discovery response yields
MaxNodes == 2

\* options passed to NewAWSDiscoverySelector
MaxOptions == 1

\* SIGINT/SIGTERM deliveries in one run
MaxSignals == 1

\* lines in one response of the configuration endpoint
MaxLines == 3

\* records on the payload line of a response
MaxRecords == 2

(* ----------------------------- constants ------------------------------ *)

\* time.Hour, the default d.pollInterval, in seconds
Hour == 3600

\* a nil *ServerList
Nil == 0

\* size of the buffer of bufio.NewReader(connection)
BufSize == 4096

\* d.clusterAddress, the configuration endpoint
ClusterAddress == "cfg:11211"

\* capacity of the signal channel c and of the ticker channel ticker.C
ChanCap == 1

\* node addresses a discovery response may name ("hostname:port")
Nodes == {"h1:11211", "h2:11211", "h3:11211"}

\* keys callers look up
Keys == {"", "k1", "k2"}

\* intervals given to WithCustomPollInterval, in seconds
CustomIntervals == {-5, 0, 60, 7200}

\* caller goroutines using the selector concurrently
Readers == {"r1"}

\* identities of the ServerList values discover() may allocate
SnapIds == 1..(MaxTicks + 1)

Range(s) == {s[i] : i \in DOMAIN s}

SeqsUpTo(S, n) == UNION {[1..k -> S] : k \in 0..n}

\* the transport failures of one attempt (dial, Fprintf, Flush, ReadSlice)
TransportErrors == {"dial", "write", "flush", "read"}

(* ------------------------ addresses and snapshots --------------------- *)

\* &staticAddr{ntw: "tcp", str: node}
staticAddr(node) == [ntw |-> "tcp", str |-> node]

\* staticAddr.String()
String(a) == a.str

\* the zero value of ServerList (var serverList ServerList)
ZeroServerList == [built |-> FALSE, addresses |-> <<>>]

\* a sequence without the repetitions of its earlier members
RECURSIVE Distinct(_)
Distinct(s) ==
    IF s = <<>> THEN <<>>
    ELSE LET front == Distinct(SubSeq(s, 1, Len(s) - 1))
         IN  IF s[Len(s)] \in Range(front) THEN front
             ELSE Append(front, s[Len(s)])

\* ServerList.SetServers(nodes...): one address per distinct node, in order;
\* a node named more than once is one point of the ring
SetServers(nodes) ==
    LET ns == Distinct(nodes)
    IN  [built |-> TRUE, addresses |-> [i \in DOMAIN ns |-> staticAddr(ns[i])]]

\* the stable hash of an address or key string
HashOf(s) ==
    CASE s = "h1:11211" -> 2
      [] s = "h2:11211" -> 5
      [] s = "h3:11211" -> 9
      [] s = ""         -> 0
      [] s = "k1"       -> 4
      [] s = "k2"       -> 11

RECURSIVE SortByHash(_)
SortByHash(S) ==
    IF S = {} THEN <<>>
    ELSE LET m == CHOOSE x \in S : \A y \in S : HashOf(x) <= HashOf(y)
         IN  <<m>> \o SortByHash(S \ {m})

\* the ring of a snapshot: one point per distinct address, ascending by hash
Ring(addresses) == SortByHash({String(addresses[i]) : i \in DOMAIN addresses})

\* ServerList.PickServer on a non-nil receiver
ServerListPickServer(sl, key) ==
    LET ring == Ring(sl.addresses)
        at   == {i \in DOMAIN ring : HashOf(ring[i]) >= HashOf(key)}
        idx  == IF at = {} THEN 1 ELSE CHOOSE i \in at : \A j \in at : i <= j
    IN  IF Len(ring) = 0
        THEN [out |-> "error", node |-> "", err |-> "ErrNoServers", visited |-> <<>>]
        ELSE [out |-> "node", node |-> ring[idx], err |-> "", visited |-> <<>>]

\* ServerList.Each on a non-nil receiver; failOn: the addresses f fails on
ServerListEach(sl, failOn) ==
    LET strs  == [i \in DOMAIN sl.addresses |-> String(sl.addresses[i])]
        bad   == {i \in DOMAIN strs : strs[i] \in failOn}
        stop  == IF bad = {} THEN Len(strs) ELSE CHOOSE i \in bad : \A j \in bad : i <= j
    IN  [out |-> "each", node |-> "",
         err |-> IF bad = {} THEN "" ELSE "visit",
         visited |-> SubSeq(strs, 1, stop)]

\* a method of *ServerList reads the receiver's fields: a nil receiver panics
NilReceiverPanic == [out |-> "panic", node |-> "", err |-> "nil pointer dereference", visited |-> <<>>]

(* ------------------------- response parsing --------------------------- *)

\* a []byte is a sequence of one-character strings
LF == "\n"
CR == "\r"
BS == "\\"

\* []byte("amazonaws")
Marker == <<"a", "m", "a", "z", "o", "n", "a", "w", "s">>

\* []byte("ERROR")
ErrorWord == <<"E", "R", "R", "O", "R">>

\* resultEnd = []byte("END\r\n")
resultEnd == <<"E", "N", "D", CR, LF>>

\* []byte(`\n\r\n`): a raw string literal, the six characters as written
RawTerminator == <<BS, "n", BS, "r", BS, "n">>

HasPrefix(s, p) == Len(s) >= Len(p) /\ SubSeq(s, 1, Len(p)) = p

Drop(s, n) == SubSeq(s, n + 1, Len(s))

\* bytes.Contains
Contains(s, sub) ==
    \E i \in 0..(Len(s) - Len(sub)) : SubSeq(s, i + 1, i + Len(sub)) = sub

\* bytes.ReplaceAll, old not empty
RECURSIVE ReplaceAll(_, _, _)
ReplaceAll(s, old, new) ==
    IF s = <<>> THEN <<>>
    ELSE IF HasPrefix(s, old)
    THEN new \o ReplaceAll(Drop(s, Len(old)), old, new)
    ELSE <<Head(s)>> \o ReplaceAll(Tail(s), old, new)

RECURSIVE SplitFrom(_, _, _)
SplitFrom(s, sep, cur) ==
    IF s = <<>> THEN <<cur>>
    ELSE IF HasPrefix(s, sep)
    THEN <<cur>> \o SplitFrom(Drop(s, Len(sep)), sep, <<>>)
    ELSE SplitFrom(Tail(s), sep, Append(cur, Head(s)))

\* bytes.Split, sep not empty
Split(s, sep) == SplitFrom(s, sep, <<>>)

\* r.ReadSlice(delim) on a reader holding the unread bytes r.bytes of a
\* stream that ends in r.end ("EOF", or "read" for a failing connection)
ReadSlice(r, delim) ==
    LET at == {i \in DOMAIN r.bytes : r.bytes[i] = delim}
        n  == IF at = {} THEN Len(r.bytes) ELSE CHOOSE i \in at : \A j \in at : i <= j
    IN  IF n > BufSize \/ (at = {} /\ Len(r.bytes) = BufSize)
        THEN [line |-> SubSeq(r.bytes, 1, BufSize), err |-> "ErrBufferFull",
              rest |-> [r EXCEPT !.bytes = Drop(r.bytes, BufSize)]]
        ELSE [line |-> SubSeq(r.bytes, 1, n),
              err  |-> IF at = {} THEN r.end ELSE "",
              rest |-> [r EXCEPT !.bytes = Drop(r.bytes, n)]]

\* parseNodes: bytes.Equal(line, resultEnd)
IsResultEndPrefix(line) == HasPrefix(line, SubSeq(resultEnd, 1, 3))

IsResultEnd(line) == line = resultEnd

\* parseNodes, lines 148-156: one node per record of exactly three fields
RECURSIVE NodesOfRecords(_)
NodesOfRecords(rawNodes) ==
    IF rawNodes = <<>> THEN <<>>
    ELSE LET config == Split(Head(rawNodes), <<"|">>)
         IN  (IF Len(config) # 3 THEN <<>>
              ELSE <<config[1] \o <<":">> \o config[3]>>)
             \o NodesOfRecords(Tail(rawNodes))

\* parseNodes, lines 146-156: the nodes of a line containing "amazonaws"
NodesOfLine(line) ==
    NodesOfRecords(Split(ReplaceAll(line, RawTerminator, <<>>), <<" ">>))

\* the loop of parseNodes; acc: nodes so far, and whether nodes is still nil
RECURSIVE ParseLoop(_, _)
ParseLoop(r, acc) ==
    LET rd == ReadSlice(r, LF)
    IN  IF rd.err # ""
        THEN [nodes |-> acc.nodes, isNil |-> acc.isNil,
              err |-> IF rd.err = "EOF" THEN "" ELSE rd.err]
        ELSE IF IsResultEnd(rd.line)
        THEN [nodes |-> acc.nodes, isNil |-> acc.isNil, err |-> ""]
        ELSE IF Contains(rd.line, ErrorWord)
        THEN [nodes |-> acc.nodes, isNil |-> acc.isNil, err |-> "ErrInvalidCommand"]
        ELSE IF Contains(rd.line, Marker)
        THEN ParseLoop(rd.rest, [nodes |-> NodesOfLine(rd.line), isNil |-> FALSE])
        ELSE ParseLoop(rd.rest, acc)

\* parseNodes(r): the nodes and the error it returns
parseNodes(r) == ParseLoop(r, [nodes |-> <<>>, isNil |-> TRUE])

\* discover() without the test of len(nodes)
NoNodesUnchecked(res) == FALSE

\* discover(): nodes == nil
NoNodesNilOnly(res) == res.isNil

\* discover(): len(nodes) == 0
NoNodes(res) == Len(res.nodes) = 0

(* ---------------------- configuration endpoint ------------------------ *)

\* the lines the generated responses are made of: END\r\n, a line END\n that
\* is neither END nor payload, an ERROR line, the payload line
LineKinds == {"end", "endLF", "error", "payload"}

\* the records of a payload line: two well-formed ones, one of two fields
RecordKinds == {"rec1", "rec2", "short"}

\* what follows the last record of the payload line: "\n\r\n" as ElastiCache
\* sends it, "\r\n", or the characters `\n\r\n` written out, a space and a
\* line feed, as in the message of TestDiscovery_parseNodes
Terminators == {"LFCRLF", "CRLF", "raw"}

\* how the stream ends after its last line: end of file, an unterminated
\* line and end of file, or a failing read
Ends == {"EOF", "partial", "read"}

RecordFields(k) ==
    CASE k = "rec1"  -> << <<"1", ".">> \o Marker, <<"7">>, <<"1", "1">> >>
      [] k = "rec2"  -> << <<"2", ".">> \o Marker, <<"8">>, <<"1", "1">> >>
      [] k = "short" -> << <<"3", ".">> \o Marker, <<"1", "1">> >>

RECURSIVE Join(_, _)
Join(parts, sep) ==
    IF parts = <<>> THEN <<>>
    ELSE IF Len(parts) = 1 THEN parts[1]
    ELSE parts[1] \o sep \o Join(Tail(parts), sep)

RecordBytes(k) == Join(RecordFields(k), <<"|">>)

TerminatorBytes(t) ==
    CASE t = "LFCRLF" -> <<LF, CR, LF>>
      [] t = "CRLF"   -> <<CR, LF>>
      [] t = "raw"    -> RawTerminator \o <<" ", LF>>

LineBytes(k, recs, term) ==
    CASE k = "header"    -> <<"C", "O", "N", "F", "I", "G", CR, LF>>
      [] k = "headerRaw" -> <<"C", "O", "N", "F", "I", "G", BS, "r", BS, "n", LF>>
      [] k = "lengthRaw" -> <<"1", "2", BS, "n", LF>>
      [] k = "end"       -> resultEnd
      [] k = "endLF"     -> <<"E", "N", "D", LF>>
      [] k = "error"     -> ErrorWord \o <<CR, LF>>
      [] k = "payload"   ->
           Join([i \in DOMAIN recs |-> RecordBytes(recs[i])], <<" ">>)
           \o TerminatorBytes(term)

EndBytes(e) ==
    CASE e = "partial"       -> ErrorWord
      [] e = "partialEndRaw" -> <<"E", "N", "D", BS, "r", BS, "n">>
      [] OTHER               -> <<>>

RECURSIVE Concat(_)
Concat(parts) == IF parts = <<>> THEN <<>> ELSE Head(parts) \o Concat(Tail(parts))

\* the byte stream the connection delivers for the response sc
Render(sc) ==
    [bytes |-> Concat([i \in DOMAIN sc.lines |->
                          LineBytes(sc.lines[i], sc.recs, sc.term)])
               \o EndBytes(sc.end),
     end   |-> IF sc.end = "read" THEN "read" ELSE "EOF"]

\* the message of TestDiscovery_parseNodes, with shortened names
DocumentedExample ==
    [lines |-> <<"headerRaw", "lengthRaw", "payload">>,
     recs |-> <<"rec1", "rec2">>, term |-> "raw", end |-> "partialEndRaw"]

\* a response as ElastiCache sends it: header, payload ended by \n\r\n, END
WireExample ==
    [lines |-> <<"header", "payload", "end">>,
     recs |-> <<"rec1", "rec2">>, term |-> "LFCRLF", end |-> "EOF"]

\* a response never parsed: the endpoint of the runs that draw parse results
NoScript == [lines |-> <<>>, recs |-> <<"rec1">>, term |-> "LFCRLF", end |-> "EOF"]

NotParsed == [nodes |-> <<>>, isNil |-> TRUE, err |-> "none"]

\* the responses of the endpoint; records and terminator matter only to a
\* response with a payload line
Scripts ==
    {sc \in [lines : SeqsUpTo(LineKinds, MaxLines),
             recs  : SeqsUpTo(RecordKinds, MaxRecords) \ {<<>>},
             term  : Terminators,
             end   : Ends] :
        "payload" \notin Range(sc.lines) =>
            (sc.recs = NoScript.recs /\ sc.term = NoScript.term)}
    \cup {DocumentedExample, WireExample}

(* ------------------------------- state -------------------------------- *)

VARIABLES
    script,          \* the response the configuration endpoint sends
    parsed,          \* history: what the last call of parseNodes returned
    clusterAddress,  \* d.clusterAddress
    cachedNodes,     \* d.nodes
    options,         \* the options given to NewAWSDiscoverySelector (intervals)
    asyncTimerChan,  \* TRUE: ticker.C is buffered (Go < 1.23 timers)
    pollInterval,    \* d.pollInterval
    tickerPeriod,    \* period of ticker
    cluster,         \* the nodes the configuration endpoint may report
    serverList,      \* d.serverList: Nil or the identity of a ServerList
    mu,              \* d.mu: [writer, readers]
    heap,            \* the ServerList values allocated by discover()
    nextId,          \* identity of the next ServerList to allocate
    installed,       \* history: identities installed, in order
    activeFrom,      \* history: content of the active ServerList when installed
    pc,              \* position of the poller goroutine
    nodes,           \* discover(): nodes
    local,           \* discover(): &serverList, the ServerList being built
    lastErr,         \* result of the last finished discover()
    attempts,        \* discover() calls started
    startRef,        \* history: d.serverList and routing when the attempt began
    okLast,          \* history: node set and routing after the last success
    tickerRunning,   \* ticker not stopped
    tickC,           \* ticker.C: the tick times waiting in it
    sigC,            \* c: number of signals waiting in it
    now,             \* time of the last ticker firing
    signalsSent,     \* signals delivered to the process
    ticksRecv,       \* ticks received by the poller
    lastTick,        \* value of the last tick received
    stopHandled,     \* the poller has run ticker.Stop()
    rpc,             \* reader: position in its call
    rop,             \* reader: "PickServer" or "Each"
    rkey,            \* reader: key
    rfail,           \* reader: addresses its visit function fails on
    rptr,            \* reader: the value it read from d.serverList
    rsnap,           \* history: content of that ServerList when it was read
    rstart,          \* history: installs completed when the call started
    rres             \* reader: what the call returned

wireVars   == <<script, parsed>>
configVars == <<clusterAddress, cachedNodes, options, asyncTimerChan, pollInterval,
               tickerPeriod, cluster>>
sharedVars == <<serverList, mu, heap, nextId, installed, activeFrom>>
pollerVars == <<pc, nodes, local, lastErr, attempts, startRef, okLast>>
timerVars  == <<tickerRunning, tickC, sigC, now, signalsSent, ticksRecv, lastTick, stopHandled>>
readerVars == <<rpc, rop, rkey, rfail, rptr, rsnap, rstart, rres>>

vars == <<wireVars, configVars, sharedVars, pollerVars, timerVars, readerVars>>

NoResult == [out |-> "none", node |-> "", err |-> "", visited |-> <<>>]
NoRoute  == [nodes |-> {}, route |-> <<>>, repeat |-> FALSE, before |-> <<>>]

(* ---------------------------- construction ---------------------------- *)

\* WithCustomPollInterval(interval) applied to d
WithCustomPollInterval(interval, d) == [d EXCEPT !.pollInterval = interval]

RECURSIVE ApplyOptions(_, _)
ApplyOptions(d, opts) ==
    IF opts = <<>> THEN d
    ELSE ApplyOptions(WithCustomPollInterval(Head(opts), d), Tail(opts))

\* time.NewTicker(d): panics on a non-positive interval
NewTickerPanics(d) == d <= 0

\* NewAWSDiscoverySelector: the Discovery it returns and the ticker period,
\* or the panic of time.NewTicker at line 48, which ends the call before the
\* poller goroutine is started and before d is returned
NewAWSDiscoverySelector(opts) ==
    LET d0 == [clusterAddress |-> ClusterAddress, nodes |-> <<>>,
               pollInterval |-> Hour, serverList |-> Nil]
        d  == ApplyOptions(d0, opts)
    IN  [d |-> d, period |-> d.pollInterval, panics |-> NewTickerPanics(d.pollInterval)]

\* the state after NewAWSDiscoverySelector(clusterAddress, opts...) returned
\* or panicked, with an endpoint that will answer sc
InitBase(opts, async, members, sc) ==
    /\ script = sc
    /\ parsed = NotParsed
    /\ clusterAddress = NewAWSDiscoverySelector(opts).d.clusterAddress
    /\ cachedNodes = NewAWSDiscoverySelector(opts).d.nodes
    /\ options = opts
    /\ asyncTimerChan = async
    /\ cluster = members
    /\ pollInterval = NewAWSDiscoverySelector(opts).d.pollInterval
    /\ tickerPeriod = NewAWSDiscoverySelector(opts).period
    /\ serverList = NewAWSDiscoverySelector(opts).d.serverList
    /\ mu = [writer |-> FALSE, readers |-> {}]
    /\ heap = [i \in SnapIds |-> ZeroServerList]
    /\ nextId = 1
    /\ installed = <<>>
    /\ activeFrom = ZeroServerList
    /\ pc = IF NewAWSDiscoverySelector(opts).panics THEN "panic" ELSE "start"
    /\ nodes = <<>>
    /\ local = Nil
    /\ lastErr = "none"
    /\ attempts = 0
    /\ startRef = [ref |-> Nil, addrs |-> {}, route |-> <<>>]
    /\ okLast = NoRoute
    /\ tickerRunning = ~NewAWSDiscoverySelector(opts).panics
    /\ tickC = <<>>
    /\ sigC = 0
    /\ now = 0
    /\ signalsSent = 0
    /\ ticksRecv = 0
    /\ lastTick = 0
    /\ stopHandled = FALSE
    /\ rpc = [r \in Readers |-> "idle"]
    /\ rop = [r \in Readers |-> "PickServer"]
    /\ rkey = [r \in Readers |-> ""]
    /\ rfail = [r \in Readers |-> {}]
    /\ rptr = [r \in Readers |-> Nil]
    /\ rsnap = [r \in Readers |-> ZeroServerList]
    /\ rstart = [r \in Readers |-> 0]
    /\ rres = [r \in Readers |-> NoResult]

InitWith(opts, async, members) == InitBase(opts, async, members, NoScript)

Init ==
    \E opts \in SeqsUpTo(CustomIntervals, MaxOptions), async \in BOOLEAN :
        InitWith(opts, async, Nodes)

(* ------------------------------ lookups ------------------------------- *)

\* d.serverList.PickServer(key), refusing the empty key
PickServerViaRefusesEmptyKey(ref, h, key) ==
    IF ref = Nil THEN NilReceiverPanic
    ELSE IF key = ""
    THEN [out |-> "error", node |-> "", err |-> "ErrMalformedKey", visited |-> <<>>]
    ELSE ServerListPickServer(h[ref], key)

\* d.serverList.Each(f), going on after f failed and dropping its error
EachViaIgnoresFailure(ref, h, failOn) ==
    IF ref = Nil THEN NilReceiverPanic ELSE ServerListEach(h[ref], {})

\* d.serverList.PickServer(key) for the value ref read from d.serverList
PickServerVia(ref, h, key) ==
    IF ref = Nil THEN NilReceiverPanic ELSE ServerListPickServer(h[ref], key)

\* d.serverList.Each(f) for the value ref read from d.serverList
EachVia(ref, h, failOn) ==
    IF ref = Nil THEN NilReceiverPanic ELSE ServerListEach(h[ref], failOn)

\* what every key is routed to through the reference ref
Route(ref, h) == [k \in Keys |-> PickServerVia(ref, h, k)]

\* the canonical strings of the addresses of the ServerList ref points to
AddrStrings(ref, h) ==
    IF ref = Nil THEN {}
    ELSE {String(h[ref].addresses[i]) : i \in DOMAIN h[ref].addresses}

\* the garbage collector: a ServerList no reference reaches is gone
Sweep(h, live) == [i \in SnapIds |-> IF i \in live THEN h[i] ELSE ZeroServerList]

(* --------------------------- discover() ------------------------------- *)

\* containsNode(nodes, node)
containsNode(addrs, node) == \E i \in DOMAIN addrs : String(addrs[i]) = node

\* (a slip: a rebuild whenever the two address sets differ)
ReplaceNodesOnAnyChange(ref, h, ns) ==
    IF ref = Nil THEN TRUE
    ELSE Range(ns) # {String(h[ref].addresses[i]) : i \in DOMAIN h[ref].addresses}

\* discover(): the value of replaceNodes
ReplaceNodes(ref, h, ns) ==
    IF ref = Nil THEN TRUE
    ELSE \E i \in DOMAIN ns : ~containsNode(h[ref].addresses, ns[i])

\* (a slip: the ServerList is built from the addresses and the new nodes)
RebuildInputMerged(ns, currentAddrs) ==
    [i \in DOMAIN currentAddrs |-> String(currentAddrs[i])] \o ns

\* (a slip: the ServerList is built from the nodes not yet known only)
RebuildInputOnlyNew(ns, currentAddrs) ==
    SelectSeq(ns, LAMBDA n : ~containsNode(currentAddrs, n))

\* discover(): the arguments of serverList.SetServers(nodes...)
RebuildInput(ns, currentAddrs) == ns

\* (a slip: SetServers is called on the ServerList in use)
SetServersReceiverInUse(ref, loc) == IF ref = Nil THEN loc ELSE ref

\* discover(): the receiver of SetServers, the ServerList declared in the call
SetServersReceiver(ref, loc) == loc

\* (a slip: the reference is assigned before the error check)
RefAfterFailedBuildAssigned(ref, loc) == loc

\* discover(): d.serverList after SetServers failed and discover returned
RefAfterFailedBuild(ref, loc) == ref

\* (a slip: the reference is assigned only while it is nil)
InstallValueOnce(ref, loc) == IF ref = Nil THEN loc ELSE ref

\* discover(): the value assigned to d.serverList under the lock
InstallValue(ref, loc) == loc

\* the node lists the endpoint may report; a node may be named repeatedly
NodeLists == SeqsUpTo(cluster, MaxNodes)

\* what one exchange with the configuration endpoint ends in: an error of
\* Dial/Fprintf/Flush/parseNodes, or the node list parseNodes returns
Responses ==
    {[err |-> e, nodes |-> <<>>, isNil |-> TRUE] :
        e \in TransportErrors \cup {"ErrInvalidCommand"}}
    \cup {[err |-> "", nodes |-> ns, isNil |-> FALSE] : ns \in NodeLists}
    \cup {[err |-> "", nodes |-> <<>>, isNil |-> TRUE]}

\* a call of d.discover() begins
DiscoverEnter ==
    /\ attempts' = attempts + 1
    /\ startRef' = [ref |-> serverList, addrs |-> AddrStrings(serverList, heap),
                     route |-> Route(serverList, heap)]
    /\ nodes' = <<>>
    /\ local' = Nil
    /\ pc' = "io"

\* discover() returns err, leaving ref in d.serverList; its locals go out
\* of scope
DiscoverReturn(err, ref) ==
    /\ lastErr' = err
    /\ pc' = "select"
    /\ nodes' = <<>>
    /\ local' = Nil
    /\ heap' = Sweep(heap, {ref} \cup Range(rptr))
    /\ IF err = "nil"
       THEN okLast' =
              LET same == okLast # NoRoute /\ okLast.nodes = Range(nodes)
              IN  [nodes |-> Range(nodes), route |-> Route(ref, heap),
                   repeat |-> same,
                   before |-> IF same THEN okLast.route ELSE <<>>]
       ELSE UNCHANGED okLast

\* lines 90-97: what discover() does with the result res of parseNodes
DiscoverAfterParse(res) ==
    IF res.err # ""
    THEN DiscoverReturn(res.err, serverList)
    ELSE IF NoNodes(res)
    THEN DiscoverReturn("ErrAutoDiscover", serverList)
    ELSE /\ nodes' = res.nodes
         /\ pc' = "reconcile"
         /\ UNCHANGED <<lastErr, okLast, local, heap>>

\* lines 72-97: dial, send the command, parse the response, check for nodes
DiscoverExchange ==
    /\ pc = "io"
    /\ \E resp \in Responses : DiscoverAfterParse(resp)
    /\ UNCHANGED <<attempts, startRef>>
    /\ UNCHANGED <<serverList, mu, nextId, installed, activeFrom>>
    /\ UNCHANGED <<wireVars, configVars, timerVars, readerVars>>

\* lines 72-97 against an endpoint that answers with script: Dial, Fprintf
\* or Flush fails, or parseNodes reads the bytes of the response
DiscoverExchangeWire ==
    /\ pc = "io"
    /\ \/ /\ \E e \in TransportErrors \ {"read"} : DiscoverReturn(e, serverList)
          /\ UNCHANGED parsed
       \/ /\ parsed' = parseNodes(Render(script))
          /\ DiscoverAfterParse(parseNodes(Render(script)))
    /\ UNCHANGED <<script, attempts, startRef>>
    /\ UNCHANGED <<serverList, mu, nextId, installed, activeFrom>>
    /\ UNCHANGED <<configVars, timerVars, readerVars>>

\* lines 99-113: decide whether to replace; declare the new ServerList
DiscoverReconcile ==
    /\ pc = "reconcile"
    /\ IF ReplaceNodes(serverList, heap, nodes)
       THEN /\ local' = nextId
            /\ nextId' = nextId + 1
            /\ heap' = [heap EXCEPT ![nextId] = ZeroServerList]
            /\ pc' = "build"
            /\ UNCHANGED <<lastErr, okLast, nodes>>
       ELSE /\ DiscoverReturn("nil", serverList)
            /\ UNCHANGED nextId
    /\ UNCHANGED <<attempts, startRef>>
    /\ UNCHANGED <<serverList, mu, installed, activeFrom>>
    /\ UNCHANGED <<wireVars, configVars, timerVars, readerVars>>

\* lines 114-117: serverList.SetServers(nodes...) on the new ServerList
DiscoverSetServers ==
    /\ pc = "build"
    /\ \E ok \in BOOLEAN :
         IF ok
         THEN /\ heap' = [heap EXCEPT ![SetServersReceiver(serverList, local)] =
                    SetServers(RebuildInput(nodes,
                        IF serverList = Nil THEN <<>> ELSE heap[serverList].addresses))]
              /\ pc' = "lock"
              /\ UNCHANGED <<lastErr, okLast, local, nodes, serverList>>
         ELSE /\ serverList' = RefAfterFailedBuild(serverList, local)
              /\ DiscoverReturn("build", serverList')
    /\ UNCHANGED <<attempts, startRef>>
    /\ UNCHANGED <<mu, nextId, installed, activeFrom>>
    /\ UNCHANGED <<wireVars, configVars, timerVars, readerVars>>

\* line 118: d.mu.Lock()
DiscoverLock ==
    /\ pc = "lock"
    /\ ~mu.writer /\ mu.readers = {}
    /\ mu' = [mu EXCEPT !.writer = TRUE]
    /\ pc' = "install"
    /\ UNCHANGED <<nodes, local, lastErr, attempts, startRef, okLast>>
    /\ UNCHANGED <<serverList, heap, nextId, installed, activeFrom>>
    /\ UNCHANGED <<wireVars, configVars, timerVars, readerVars>>

\* line 119: d.serverList = &serverList
DiscoverInstall ==
    /\ pc = "install"
    /\ serverList' = InstallValue(serverList, local)
    /\ installed' = Append(installed, local)
    /\ activeFrom' = heap[local]
    /\ heap' = Sweep(heap, {serverList', local} \cup Range(rptr))
    /\ pc' = "unlock"
    /\ UNCHANGED <<nodes, local, lastErr, attempts, startRef, okLast>>
    /\ UNCHANGED <<mu, nextId>>
    /\ UNCHANGED <<wireVars, configVars, timerVars, readerVars>>

\* lines 120-122: d.mu.Unlock(); return nil
DiscoverUnlock ==
    /\ pc = "unlock"
    /\ mu' = [mu EXCEPT !.writer = FALSE]
    /\ DiscoverReturn("nil", serverList)
    /\ UNCHANGED <<attempts, startRef>>
    /\ UNCHANGED <<serverList, nextId, installed, activeFrom>>
    /\ UNCHANGED <<wireVars, configVars, timerVars, readerVars>>

(* ------------------------- the poller goroutine ----------------------- *)

\* (a slip: the goroutine enters the select loop without a first attempt)
PollerStartNoFirstAttempt ==
    /\ pc = "start"
    /\ pc' = "select"
    /\ UNCHANGED <<nodes, local, lastErr, attempts, startRef, okLast>>
    /\ UNCHANGED <<wireVars, configVars, sharedVars, timerVars, readerVars>>

\* line 50: the first d.discover(), before the select loop
PollerStart ==
    /\ pc = "start"
    /\ DiscoverEnter
    /\ UNCHANGED <<lastErr, okLast>>
    /\ UNCHANGED <<wireVars, configVars, sharedVars, timerVars, readerVars>>

\* lines 55-56: case <-ticker.C: d.discover()
PollerRecvTick ==
    /\ pc = "select"
    /\ tickC # <<>>
    /\ tickC' = Tail(tickC)
    /\ lastTick' = Head(tickC)
    /\ ticksRecv' = ticksRecv + 1
    /\ DiscoverEnter
    /\ UNCHANGED <<lastErr, okLast>>
    /\ UNCHANGED <<tickerRunning, sigC, now, signalsSent, stopHandled>>
    /\ UNCHANGED <<wireVars, configVars, sharedVars, readerVars>>

\* ticker.Stop(): no more ticks are sent; a tick already in a buffered
\* channel stays there, a channel of the 1.23 timers yields no stale value
TickerStop(ch, async) == IF async THEN ch ELSE <<>>

\* lines 53-54: case <-c: ticker.Stop()
PollerRecvSignal ==
    /\ pc = "select"
    /\ sigC > 0
    /\ sigC' = sigC - 1
    /\ tickerRunning' = FALSE
    /\ tickC' = TickerStop(tickC, asyncTimerChan)
    /\ stopHandled' = TRUE
    /\ UNCHANGED <<now, signalsSent, ticksRecv, lastTick>>
    /\ UNCHANGED <<wireVars, configVars, sharedVars, pollerVars, readerVars>>

(* ---------------------------- environment ----------------------------- *)

\* the runtime timer of the ticker fires; a tick that finds the channel
\* full is dropped
Tick ==
    /\ tickerRunning
    /\ now < MaxTicks * tickerPeriod
    /\ now' = now + tickerPeriod
    /\ tickC' = IF Len(tickC) < ChanCap THEN Append(tickC, now + tickerPeriod) ELSE tickC
    /\ UNCHANGED <<tickerRunning, sigC, signalsSent, ticksRecv, lastTick, stopHandled>>
    /\ UNCHANGED <<wireVars, configVars, sharedVars, pollerVars, readerVars>>

\* SIGINT or SIGTERM reaches the process; signal.Notify does not block
Signal ==
    /\ signalsSent < MaxSignals
    /\ signalsSent' = signalsSent + 1
    /\ sigC' = IF sigC < ChanCap THEN sigC + 1 ELSE sigC
    /\ UNCHANGED <<tickerRunning, tickC, now, ticksRecv, lastTick, stopHandled>>
    /\ UNCHANGED <<wireVars, configVars, sharedVars, pollerVars, readerVars>>

(* ------------------------------ callers ------------------------------- *)

\* NewAWSDiscoverySelector returned a Discovery: callers have one to use
Constructed == pc # "panic"

\* a caller enters Discovery.PickServer(key)
CallPickServer(r) ==
    /\ Constructed
    /\ rpc[r] = "idle"
    /\ \E key \in Keys :
         /\ rop' = [rop EXCEPT ![r] = "PickServer"]
         /\ rkey' = [rkey EXCEPT ![r] = key]
    /\ rpc' = [rpc EXCEPT ![r] = "load"]
    /\ rstart' = [rstart EXCEPT ![r] = Len(installed)]
    /\ UNCHANGED <<rfail, rptr, rsnap, rres>>
    /\ UNCHANGED <<wireVars, configVars, sharedVars, pollerVars, timerVars>>

\* the visit functions callers pass to Each, by the addresses they fail on
VisitFailures == {{}, {"h2:11211"}}

\* a caller enters Discovery.Each(f)
CallEach(r) ==
    /\ Constructed
    /\ rpc[r] = "idle"
    /\ \E failOn \in VisitFailures :
         /\ rop' = [rop EXCEPT ![r] = "Each"]
         /\ rfail' = [rfail EXCEPT ![r] = failOn]
    /\ rpc' = [rpc EXCEPT ![r] = "load"]
    /\ rstart' = [rstart EXCEPT ![r] = Len(installed)]
    /\ UNCHANGED <<rkey, rptr, rsnap, rres>>
    /\ UNCHANGED <<wireVars, configVars, sharedVars, pollerVars, timerVars>>

\* the read of d.serverList, starting a discovery attempt when it is nil
ReaderLoadLazyDiscover(r) ==
    /\ rpc[r] = "load"
    /\ rptr' = [rptr EXCEPT ![r] = serverList]
    /\ rsnap' = [rsnap EXCEPT ![r] =
                   IF serverList = Nil THEN ZeroServerList ELSE heap[serverList]]
    /\ rpc' = [rpc EXCEPT ![r] = "exec"]
    /\ attempts' = IF serverList = Nil THEN attempts + 1 ELSE attempts
    /\ UNCHANGED <<rop, rkey, rfail, rstart, rres>>
    /\ UNCHANGED <<pc, nodes, local, lastErr, startRef, okLast>>
    /\ UNCHANGED <<wireVars, configVars, sharedVars, timerVars>>

\* lines 162 and 166: the read of d.serverList, with no lock taken
ReaderLoad(r) ==
    /\ rpc[r] = "load"
    /\ rptr' = [rptr EXCEPT ![r] = serverList]
    /\ rsnap' = [rsnap EXCEPT ![r] =
                   IF serverList = Nil THEN ZeroServerList ELSE heap[serverList]]
    /\ rpc' = [rpc EXCEPT ![r] = "exec"]
    /\ UNCHANGED <<rop, rkey, rfail, rstart, rres>>
    /\ UNCHANGED <<wireVars, configVars, sharedVars, pollerVars, timerVars>>

\* lines 162 and 166: the method of ServerList runs on the value read
ReaderExec(r) ==
    /\ rpc[r] = "exec"
    /\ rres' = [rres EXCEPT ![r] =
                  IF rop[r] = "PickServer"
                  THEN PickServerVia(rptr[r], heap, rkey[r])
                  ELSE EachVia(rptr[r], heap, rfail[r])]
    /\ rpc' = [rpc EXCEPT ![r] = "done"]
    /\ UNCHANGED <<rop, rkey, rfail, rptr, rsnap, rstart>>
    /\ UNCHANGED <<wireVars, configVars, sharedVars, pollerVars, timerVars>>

\* the call has returned; the caller is ready for its next call and no
\* longer holds the ServerList it used
ReaderReturn(r) ==
    /\ rpc[r] = "done"
    /\ rpc' = [rpc EXCEPT ![r] = "idle"]
    /\ rop' = [rop EXCEPT ![r] = "PickServer"]
    /\ rkey' = [rkey EXCEPT ![r] = ""]
    /\ rfail' = [rfail EXCEPT ![r] = {}]
    /\ rptr' = [rptr EXCEPT ![r] = Nil]
    /\ rsnap' = [rsnap EXCEPT ![r] = ZeroServerList]
    /\ rstart' = [rstart EXCEPT ![r] = 0]
    /\ rres' = [rres EXCEPT ![r] = NoResult]
    /\ heap' = Sweep(heap, {serverList, local} \cup Range(rptr'))
    /\ UNCHANGED <<serverList, mu, nextId, installed, activeFrom>>
    /\ UNCHANGED <<wireVars, configVars, pollerVars, timerVars>>

(* --------------------------- specification ---------------------------- *)

Next ==
    \/ PollerStart
    \/ PollerRecvTick
    \/ PollerRecvSignal
    \/ DiscoverExchange
    \/ DiscoverReconcile
    \/ DiscoverSetServers
    \/ DiscoverLock
    \/ DiscoverInstall
    \/ DiscoverUnlock
    \/ Tick
    \/ Signal
    \/ \E r \in Readers : CallPickServer(r)
    \/ \E r \in Readers : CallEach(r)
    \/ \E r \in Readers : ReaderLoad(r)
    \/ \E r \in Readers : ReaderExec(r)
    \/ \E r \in Readers : ReaderReturn(r)

Spec == Init /\ [][Next]_vars

\* discover(), step by step
NextDiscover ==
    \/ DiscoverExchange
    \/ DiscoverReconcile
    \/ DiscoverSetServers
    \/ DiscoverLock
    \/ DiscoverInstall
    \/ DiscoverUnlock

\* The poller and its timer and signals, for every configuration, against a
\* cluster of one node.
InitSched ==
    \E opts \in SeqsUpTo(CustomIntervals, MaxOptions), async \in BOOLEAN :
        InitWith(opts, async, {"h1:11211"})

NextSched ==
    \/ PollerStart
    \/ PollerRecvTick
    \/ PollerRecvSignal
    \/ NextDiscover
    \/ Tick
    \/ Signal

SpecSched == InitSched /\ [][NextSched]_vars

\* The sequence of discovery attempts against the whole cluster, with the
\* default configuration and no shutdown request.
InitData == InitWith(<<>>, FALSE, Nodes)

NextData ==
    \/ PollerStart
    \/ PollerRecvTick
    \/ NextDiscover
    \/ Tick

SpecData == InitData /\ [][NextData]_vars

\* Callers running concurrently with the poller, against a cluster of two
\* nodes, with the default configuration and no shutdown request.
InitReaders == InitWith(<<>>, FALSE, {"h1:11211", "h2:11211"})

NextReaders ==
    \/ NextData
    \/ \E r \in Readers : CallPickServer(r)
    \/ \E r \in Readers : CallEach(r)
    \/ \E r \in Readers : ReaderLoad(r)
    \/ \E r \in Readers : ReaderExec(r)
    \/ \E r \in Readers : ReaderReturn(r)

SpecReaders == InitReaders /\ [][NextReaders]_vars

\* callers beside the poller of a one-node cluster
InitLookups == InitWith(<<>>, FALSE, {"h1:11211"})

SpecLookups == InitLookups /\ [][NextReaders]_vars

\* the first attempt of a poller against each response of the endpoint, up
\* to the point where discover() returns or holds the parsed nodes
InitParse == \E sc \in Scripts : InitBase(<<>>, FALSE, {}, sc)

NextParse ==
    \/ PollerStart
    \/ DiscoverExchangeWire

SpecParse == InitParse /\ [][NextParse]_vars

(* ------------------------------ properties ---------------------------- *)

\* the place of ref in the order of installs: 0 for nil, -1 if never installed
InstalledAt(ref) ==
    IF ref = Nil THEN 0
    ELSE IF \E i \in DOMAIN installed : installed[i] = ref
         THEN CHOOSE i \in DOMAIN installed : installed[i] = ref
         ELSE -1

\* what a call of reader r returns when run on the one ServerList value sl
ResultOn(r, sl) ==
    IF rop[r] = "PickServer" THEN ServerListPickServer(sl, rkey[r])
    ELSE ServerListEach(sl, rfail[r])

IsError(e) == e \notin {"nil", "none"}

\* C1: the active ServerList was completely built by SetServers before it
\* was installed and has not changed since; every install is of a fresh
\* ServerList; a caller that read a non-nil reference holds an installed,
\* completely built ServerList whose content has not changed since the
\* read, and what the call returns is the result on that one content.
C1_ReadersUseOneBuiltSnapshot ==
    /\ serverList # Nil =>
          /\ InstalledAt(serverList) > 0
          /\ heap[serverList].built
          /\ heap[serverList] = activeFrom
    /\ \A i, j \in DOMAIN installed : installed[i] = installed[j] => i = j
    /\ \A r \in Readers :
          (rpc[r] \in {"exec", "done"} /\ rptr[r] # Nil) =>
              /\ InstalledAt(rptr[r]) > 0
              /\ rsnap[r].built
              /\ heap[rptr[r]] = rsnap[r]
              /\ rpc[r] = "done" => rres[r] = ResultOn(r, rsnap[r])

\* C1 witness: a call has returned a node from the prior ServerList after a
\* newer one was installed
C1_Witness ==
    \E r \in Readers :
        /\ rpc[r] = "done"
        /\ rres[r].out = "node"
        /\ rptr[r] # Nil
        /\ rptr[r] # serverList
        /\ heap[rptr[r]] # heap[serverList]

\* C2 (as claimed): a caller is never at its read of d.serverList while the
\* poller, holding d.mu exclusively, is at its write of d.serverList.
C2_NoUnsynchronisedAccess ==
    \A r \in Readers : ~(rpc[r] = "load" /\ r \notin mu.readers /\ pc = "install" /\ mu.writer)

\* C3 (as claimed): a PickServer call that found no ServerList installed
\* returns the error NoActiveMembership.
C3_NoSnapshotYieldsError ==
    \A r \in Readers :
        (rpc[r] = "done" /\ rop[r] = "PickServer" /\ rptr[r] = Nil) =>
            (rres[r].out = "error" /\ rres[r].err = "NoActiveMembership")

\* C4: a PickServer call that started after the n-th install completed is
\* answered from the n-th installed ServerList or a later one.
C4_LaterCallsSeeInstall ==
    \A r \in Readers :
        (rpc[r] \in {"exec", "done"} /\ rop[r] = "PickServer") =>
            InstalledAt(rptr[r]) >= rstart[r]

\* C4 witness: a call that started after the second install has returned a
\* node of the second ServerList
C4_Witness ==
    \E r \in Readers :
        /\ rpc[r] = "done"
        /\ rop[r] = "PickServer"
        /\ rstart[r] = 2
        /\ InstalledAt(rptr[r]) = 2
        /\ rres[r].out = "node"

\* C5: after a discover() that returned an error, d.serverList is the
\* reference it was when the attempt began, and every key is routed as it
\* was then.
C5_FailedAttemptKeepsSnapshot ==
    (pc = "select" /\ IsError(lastErr)) =>
        /\ serverList = startRef.ref
        /\ AddrStrings(serverList, heap) = startRef.addrs
        /\ Route(serverList, heap) = startRef.route

\* C5 witness: a build failed while a ServerList was active
C5_Witness ==
    /\ pc = "select"
    /\ lastErr = "build"
    /\ serverList # Nil
    /\ startRef.ref = serverList

\* C6: after a discover() that returned nil for the list L, d.serverList was
\* replaced exactly if it was nil before or some address of L was not among
\* the addresses of the ServerList active before.
C6_ReplaceIffNewAddress ==
    (pc = "select" /\ lastErr = "nil") =>
        ((serverList # startRef.ref) <=>
            (startRef.ref = Nil \/ ~(okLast.nodes \subseteq startRef.addrs)))

\* C6 witness: a successful attempt reported fewer nodes and the ServerList
\* stayed
C6_Witness ==
    /\ pc = "select"
    /\ lastErr = "nil"
    /\ serverList = startRef.ref
    /\ okLast.nodes # startRef.addrs
    /\ okLast.nodes \subseteq startRef.addrs

\* C7: a newly installed ServerList holds exactly the addresses of the
\* discovered list; an address of the prior ServerList that the list lacks
\* is not in it.
C7_RebuildFromDiscoveredOnly ==
    /\ pc = "unlock" => AddrStrings(serverList, heap) = Range(nodes)
    /\ (pc = "select" /\ lastErr = "nil" /\ serverList # startRef.ref) =>
          /\ AddrStrings(serverList, heap) = okLast.nodes
          /\ (startRef.addrs \ okLast.nodes) \cap AddrStrings(serverList, heap) = {}

\* C7 witness: a rebuild dropped an address of the prior ServerList
C7_Witness ==
    /\ pc = "select"
    /\ lastErr = "nil"
    /\ serverList # startRef.ref
    /\ startRef.addrs \ okLast.nodes # {}

\* C8: when a successful attempt reported the node set of the successful
\* attempt before it, every key is routed afterwards as it was after that
\* earlier attempt.
C8_SameNodesSameRouting ==
    okLast.repeat => okLast.route = okLast.before

\* C8 witness: two successful attempts in a row reported the same two nodes
C8_Witness ==
    /\ okLast.repeat
    /\ Cardinality(okLast.nodes) = 2
    /\ pc = "select"
    /\ lastErr = "nil"

\* the interval the options configure: the last one given, else one hour
ExpectedInterval ==
    IF options = <<>> THEN Hour ELSE options[Len(options)]

\* C9: the ticker runs at the configured interval; the poller starts its
\* first attempt without a tick and every further attempt on the receipt of
\* one tick, so attempts = 1 + ticks received, whatever the attempts
\* returned; the k-th tick received is a tick of the configured interval;
\* and after a failed attempt the poller is back in its select, where a
\* waiting tick starts the next attempt.  A poller is started when the
\* configured interval is positive; otherwise the constructor panics.
C9_AttemptPerTick ==
    /\ pollInterval = ExpectedInterval
    /\ tickerPeriod = ExpectedInterval
    /\ Constructed <=> ExpectedInterval > 0
    /\ Constructed =>
          /\ attempts = (IF pc = "start" THEN 0 ELSE 1) + ticksRecv
          /\ ticksRecv > 0 =>
                /\ lastTick % ExpectedInterval = 0
                /\ lastTick >= ticksRecv * ExpectedInterval
          /\ (pc # "start" /\ lastErr = "none") => attempts = 1
          /\ (pc = "select" /\ tickC # <<>>) => ENABLED PollerRecvTick
          /\ (pc = "select" /\ tickC = <<>>) => ~ENABLED PollerRecvTick

\* C9 witness: with a custom interval, the first attempt failed and the
\* attempt of the first tick is under way
C9_Witness ==
    /\ options # <<>>
    /\ attempts = 2
    /\ ticksRecv = 1
    /\ lastErr = "dial"
    /\ pc = "io"

\* C10 (as claimed): once the poller has handled a shutdown request by
\* stopping the ticker, it starts no further discovery attempt.
C10_NoAttemptAfterStop ==
    [][stopHandled => attempts' = attempts]_vars

(* --------------------- properties of parseNodes ----------------------- *)

\* index of the first END or ERROR line of a response, or one past its end
StopIndex(lines) ==
    LET at == {i \in DOMAIN lines : lines[i] \in {"end", "error"}}
    IN  IF at = {} THEN Len(lines) + 1 ELSE CHOOSE i \in at : \A j \in at : i <= j

\* the lines parseNodes reads before it stops
LinesRead(sc) == SubSeq(sc.lines, 1, StopIndex(sc.lines) - 1)

\* parseNodes stops at an END line or at end-of-stream
CleanEnd(sc) ==
    IF StopIndex(sc.lines) <= Len(sc.lines)
    THEN sc.lines[StopIndex(sc.lines)] = "end"
    ELSE sc.end # "read"

\* the response has a payload line and then ends in END or end-of-stream
PayloadThenCleanEnd(sc) ==
    "payload" \in Range(LinesRead(sc)) /\ CleanEnd(sc)

\* hostname:port of every record of exactly three fields, in order
ExpectedNodes(recs) ==
    LET good == SelectSeq(recs, LAMBDA k : Len(RecordFields(k)) = 3)
    IN  [i \in DOMAIN good |->
            RecordFields(good[i])[1] \o <<":">> \o RecordFields(good[i])[3]]

\* parseNodes has run on the response
Parsed == parsed # NotParsed

\* C11: for a response whose payload line is single-space-separated records
\* followed by its terminator, parseNodes returns no error and exactly the
\* hostname:port of each three-field record, in order, the last record
\* included, with nothing appended to the port.
C11_NodePerWellFormedRecord ==
    (Parsed /\ PayloadThenCleanEnd(script))
        => /\ parsed.err = ""
           /\ parsed.nodes = ExpectedNodes(script.recs)

\* the first END or ERROR line of the response is an ERROR line
ErrorLineFirst(sc) ==
    /\ StopIndex(sc.lines) <= Len(sc.lines)
    /\ sc.lines[StopIndex(sc.lines)] = "error"

\* C12: when a line containing ERROR comes before the END line or the end
\* of the stream, parseNodes returns InvalidCommand together with no nodes,
\* also after a payload line was parsed, and the attempt installs nothing.
C12_ErrorLineYieldsNoNodes ==
    (Parsed /\ ErrorLineFirst(script))
        => /\ parsed.err = "ErrInvalidCommand"
           /\ parsed.nodes = <<>>
           /\ lastErr = "ErrInvalidCommand"
           /\ pc = "select"
           /\ serverList = Nil /\ installed = <<>>

\* the response has no payload line, or one without a three-field record
NoUsableRecord(sc) ==
    \/ "payload" \notin Range(LinesRead(sc))
    \/ \A i \in DOMAIN sc.recs : Len(RecordFields(sc.recs[i])) # 3

\* C13: a response that parses without error but yields zero nodes (no
\* payload line, or no record of exactly three fields) makes the attempt
\* fail with ErrAutoDiscover before the reconcile step: an empty node list
\* never reaches the reconcile or build step, and nothing is installed.
C13_ZeroNodesIsAutoDiscover ==
    /\ (Parsed /\ parsed.err = "" /\ Len(parsed.nodes) = 0)
          => /\ lastErr = "ErrAutoDiscover"
             /\ pc = "select"
             /\ serverList = Nil /\ installed = <<>>
    /\ (Parsed /\ CleanEnd(script) /\ NoUsableRecord(script))
          => lastErr = "ErrAutoDiscover"
    /\ pc \in {"reconcile", "build", "lock", "install", "unlock"}
          => Len(nodes) > 0

\* a payload line of malformed records only was parsed and refused
C13_Witness ==
    /\ Parsed /\ parsed.err = "" /\ ~parsed.isNil /\ parsed.nodes = <<>>
    /\ "payload" \in Range(LinesRead(script))
    /\ lastErr = "ErrAutoDiscover" /\ pc = "select"

(* ------------------- properties of PickServer and Each ---------------- *)

\* C15: on a snapshot of exactly one node, PickServer returns that node
\* and no error for every key, the empty key included.
C15_SingleNodeTakesEveryKey ==
    \A r \in Readers :
        (/\ rpc[r] = "done" /\ rop[r] = "PickServer" /\ rptr[r] # Nil
         /\ Len(rsnap[r].addresses) = 1)
            => /\ rres[r].out = "node"
               /\ rres[r].node = String(rsnap[r].addresses[1])
               /\ rres[r].err = ""

\* a lookup of the empty key has returned the node of a one-node snapshot
C15_Witness ==
    \E r \in Readers :
        /\ rpc[r] = "done" /\ rop[r] = "PickServer" /\ rptr[r] # Nil
        /\ Len(rsnap[r].addresses) = 1
        /\ rkey[r] = ""
        /\ rres[r].node = String(rsnap[r].addresses[1])

\* the canonical strings of the addresses of the ServerList sl, in order
AddrSeq(sl) == [i \in DOMAIN sl.addresses |-> String(sl.addresses[i])]

\* C16: Each(visit) calls visit once for every node of the active snapshot
\* and for no other; it stops at the first visit that fails and returns
\* that failure; when no visit fails it has visited them all and returns
\* no error.
C16_EachVisitsEveryNodeOnce ==
    \A r \in Readers :
        (rpc[r] = "done" /\ rop[r] = "Each" /\ rptr[r] # Nil) =>
            LET v == rres[r].visited
            IN  /\ \A i, j \in DOMAIN v : v[i] = v[j] => i = j
                /\ Range(v) \subseteq Range(AddrSeq(rsnap[r]))
                /\ v = SubSeq(AddrSeq(rsnap[r]), 1, Len(v))
                /\ rres[r].err = "" =>
                      /\ Range(v) = Range(AddrSeq(rsnap[r]))
                      /\ Range(v) \cap rfail[r] = {}
                /\ rres[r].err # "" =>
                      /\ rres[r].err = "visit"
                      /\ v[Len(v)] \in rfail[r]
                      /\ \A i \in 1..(Len(v) - 1) : v[i] \notin rfail[r]

\* a traversal of a two-node snapshot was stopped by the failure of its
\* first visit: the second node was not visited
C16_Witness ==
    \E r \in Readers :
        /\ rpc[r] = "done" /\ rop[r] = "Each" /\ rptr[r] # Nil
        /\ Len(rsnap[r].addresses) = 2
        /\ rres[r].err = "visit"
        /\ Len(rres[r].visited) = 1

\* a step of a caller inside PickServer or Each
LookupStep == \E r \in Readers : rpc'[r] # rpc[r]

\* the caller can take its next step whatever the poller is doing
NeverWaits ==
    Constructed => \A r \in Readers :
        /\ rpc[r] = "idle" => (ENABLED CallPickServer(r) /\ ENABLED CallEach(r))
        /\ rpc[r] = "load" => ENABLED ReaderLoad(r)
        /\ rpc[r] = "exec" => ENABLED ReaderExec(r)
        /\ rpc[r] = "done" => ENABLED ReaderReturn(r)

\* C17: PickServer and Each leave the active reference, the active
\* ServerList and the discovery state (cluster address, poll interval,
\* cached node list) unchanged, start no discovery attempt and take no step
\* of the poller, and never wait for the poller: every step of a lookup can
\* be taken while a discovery attempt is anywhere, stalled or holding d.mu.
C17_LookupsOnlyRead ==
    /\ [][LookupStep =>
            /\ UNCHANGED <<serverList, mu, installed, activeFrom>>
            /\ serverList # Nil => heap'[serverList] = heap[serverList]
            /\ UNCHANGED <<clusterAddress, pollInterval, cachedNodes>>
            /\ UNCHANGED <<pollerVars, timerVars>>]_vars
    /\ []NeverWaits

\* a lookup has returned a node while the second discovery attempt is
\* waiting for the endpoint
C17_Witness ==
    \E r \in Readers :
        /\ pc = "io" /\ attempts = 2
        /\ rpc[r] = "done" /\ rres[r].out = "node"
        /\ serverList # Nil

\* the response cut off after its first END line
TruncatedAtEnd(sc) ==
    LET at == {i \in DOMAIN sc.lines : sc.lines[i] = "end"}
    IN  IF at = {} THEN sc
        ELSE [sc EXCEPT !.lines = SubSeq(sc.lines, 1,
                                     CHOOSE i \in at : \A j \in at : i <= j),
                        !.end = "EOF"]

\* C19: parseNodes reads the lines in order and stops at the first line
\* that is exactly END\r\n or at end-of-stream, whichever comes first; it
\* then returns the nodes collected so far with no error; nothing after the
\* END line influences the result.
C19_StopsAtEndOrEndOfStream ==
    Parsed =>
        /\ parsed = parseNodes(Render(TruncatedAtEnd(script)))
        /\ CleanEnd(script) =>
              /\ parsed.err = ""
              /\ parsed.isNil = ("payload" \notin Range(LinesRead(script)))
              /\ ~parsed.isNil =>
                    Len(parsed.nodes) = Len(ExpectedNodes(script.recs))

\* nodes were returned without error although an ERROR line follows END
C19_Witness ==
    /\ Parsed /\ parsed.err = "" /\ Len(parsed.nodes) > 0
    /\ \E i \in DOMAIN script.lines :
          /\ script.lines[i] = "end"
          /\ i < Len(script.lines)
          /\ script.lines[i + 1] = "error"

(* ------------------- properties of the active snapshot ---------------- *)

\* C20: over every sequence of discovery attempts, d.serverList is nil or a
\* ServerList of at least one address; once one was installed it is never
\* nil or empty again, so from the first successful discovery on every
\* lookup returns a node.
C20_ActiveSnapshotNeverEmpty ==
    /\ serverList # Nil => Len(heap[serverList].addresses) >= 1
    /\ (Len(installed) > 0 \/ okLast # NoRoute) =>
          /\ serverList # Nil
          /\ \A k \in Keys :
                /\ Route(serverList, heap)[k].out = "node"
                /\ Route(serverList, heap)[k].node \in AddrStrings(serverList, heap)

\* the installed ServerList is still active after a later response with no
\* nodes was refused
C20_Witness ==
    /\ Len(installed) > 0 /\ serverList # Nil
    /\ pc = "select" /\ lastErr = "ErrAutoDiscover"
    /\ Len(heap[serverList].addresses) >= 1

====
